---- MODULE Spec2Model ----
(***************************************************************************)
(* Model of the account service of event_manager                           *)
(* (src/app/services/user_service.py): the users table as a function from  *)
(* account ids to rows, and one action per UserService operation.          *)
(*                                                                         *)
(* Spec      runs the operations one after another (each handler is one    *)
(*           atomic action).                                                *)
(* SpecConc  runs create() of two concurrent requests split at its await   *)
(*           points (lookup, commit, email dispatch); the other handlers   *)
(*           run between those steps.                                       *)
(***************************************************************************)
EXTENDS Integers, FiniteSets, Sequences, TLC

VARIABLES
    users,    \* the users table: id -> row, for the ids that exist
    nextId,   \* the next fresh id (User.id is a fresh uuid per row)
    now,      \* the last value read from the clock
    last,     \* the last call: operation, arguments, result ("await": the
              \* last step left its call suspended)
    streak,   \* history: id -> consecutive wrong-password logins on the
              \* account since it was created, verified, logged in to,
              \* unlocked or reset (counted up to max_login_attempts)
    pc,       \* SpecConc: request -> where its create() call stands
    loc       \* SpecConc: request -> the locals of its create() call

vars == <<users, nextId, now, last, streak, pc, loc>>

----------------------------------------------------------------------------
(* Bounds of the model *)

MaxIds == 2            \* accounts ever created
MaxClock == 2          \* clock readings 1..MaxClock
max_login_attempts == 2    \* settings.max_login_attempts

None == 0              \* Python None where an account or a time is expected
NoneStr == "None"      \* Python None where a string is expected
Unset == "Unset"       \* a field absent from the update payload
Raised == 0 - 1        \* the call ended with an exception

Emails == {"a@x.com", "b@x.com"}
BadEmail == "notanemail"          \* rejected by EmailStr
Nicknames == {"nick_a", "nick_b"}
BadNickname == "ab"               \* rejected by min_length=3
Passwords == {"pw1", "pw2"}
Salts == {"s1"}
Ids == 1..MaxIds
Procs == {1, 2}

----------------------------------------------------------------------------
(* Collaborators of the service, modelled from their contracts:            *)
(* app.utils.security, app.models.user_model                               *)

\* hash_password: a salted one-way hash of the plaintext
hash_password(password, salt) == [pw |-> password, salt |-> salt]

\* verify_password: true exactly for the plaintext that was hashed
verify_password(password, hashed) == hashed.pw = password

\* generate_verification_token: an opaque value, fresh for every account
generate_verification_token(n) == <<"tok", n>>

Tokens == {generate_verification_token(n) : n \in 0..MaxIds}

\* User(**validated_data): a new row with the column defaults
User(email, nickname, hashed, token) ==
    [email |-> email, nickname |-> nickname, hashed_password |-> hashed,
     verification_token |-> token, email_verified |-> FALSE,
     is_locked |-> FALSE, failed_login_attempts |-> 0,
     last_login_at |-> None, role |-> "AUTHENTICATED"]

\* the users table with a unique constraint on email only
UniqueOK_EmailOnly(us, i, row) ==
    \A j \in DOMAIN us \ {i} : us[j].email # row.email

\* the unique constraints of the users table on email and nickname:
\* may row be stored under id i next to the other rows of us?
UniqueOK(us, i, row) ==
    \A j \in DOMAIN us \ {i} :
        us[j].email # row.email /\ us[j].nickname # row.nickname

----------------------------------------------------------------------------
(* Lookups *)

get_by_id(us, user_id) == IF user_id \in DOMAIN us THEN user_id ELSE None

get_by_email(us, email) ==
    IF \E i \in DOMAIN us : us[i].email = email
    THEN CHOOSE i \in DOMAIN us : us[i].email = email
    ELSE None

count(us) == Cardinality(DOMAIN us)

\* a completed call: the operation, its key argument (email or id), its other
\* argument, the rows the handler loaded ({} when none) and what it returned
Call(op, key, inp, pre, result) ==
    [op |-> op, key |-> key, inp |-> inp, pre |-> pre, result |-> result]

\* the rows a lookup that returned i has loaded
Loaded(us, i) == IF i \in DOMAIN us THEN {us[i]} ELSE {}

----------------------------------------------------------------------------
Init ==
    /\ users = << >>
    /\ nextId = 1
    /\ now = 1
    /\ last = Call("init", None, None, {}, None)
    /\ streak = << >>
    /\ pc = [p \in Procs |-> "idle"]
    /\ loc = [p \in Procs |-> None]

----------------------------------------------------------------------------
(* UserService.create / register_user *)

\* UserCreate(**user_data): the email is well formed and a supplied
\* nickname satisfies the schema
UserCreateValid(email, nickname) ==
    /\ email \in Emails
    /\ nickname \in Nicknames \cup {NoneStr}

\* nickname = validated_data.get("nickname") or generate_nickname()
create_nickname(nickname, gen) ==
    IF nickname # NoneStr THEN nickname ELSE gen

\* create_rejects that validates the payload but skips the email lookup
create_rejects_NoLookup(us, email, nickname) ==
    ~UserCreateValid(email, nickname)

\* the lookup of create(): None is returned without touching the table when
\* validation fails or the email is taken
create_rejects(us, email, nickname) ==
    ~UserCreateValid(email, nickname) \/ get_by_email(us, email) # None

\* create_commit that returns before the insert has reached the table
create_commit_Unflushed(us, id, row) == us

\* session.add(new_user); commit(): the table after the insert, or the table
\* as it was when the commit fails on a unique constraint
create_commit(us, id, row) ==
    IF UniqueOK(us, id, row) THEN us @@ (id :> row) ELSE us

\* what create() returns once the commit went through: the new account, or
\* the exception of send_verification_email
create_send(id, sendOk) == IF sendOk THEN id ELSE Raised

\* create_after_send that undoes the insert when the email could not be sent
create_after_send_RollsBack(us, id, sendOk) ==
    IF sendOk THEN us ELSE [i \in DOMAIN us \ {id} |-> us[i]]

\* the table once send_verification_email has returned or raised: create()
\* has no handler for its exception and writes nothing after the commit
create_after_send(us, id, sendOk) == us

Create(email, nickname, password, gen, salt, sendOk) ==
    LET nick == create_nickname(nickname, gen)
        row == User(email, nick, hash_password(password, salt),
                    generate_verification_token(nextId))
        us2 == create_commit(users, nextId, row)
    IN
    /\ IF create_rejects(users, email, nickname)
       THEN /\ last' = Call("create", email, None, {}, None)
            /\ UNCHANGED <<users, nextId, streak>>
       ELSE IF nick = ""
       THEN /\ last' = Call("create", email, None, {}, Raised)
            /\ UNCHANGED <<users, nextId, streak>>
       ELSE /\ nextId <= MaxIds
            /\ IF ~UniqueOK(users, nextId, row)
               THEN /\ users' = us2
                    /\ last' = Call("create", email, None, {}, Raised)
                    /\ UNCHANGED <<nextId, streak>>
               ELSE /\ users' = create_after_send(us2, nextId, sendOk)
                    /\ nextId' = nextId + 1
                    /\ streak' = streak @@ (nextId :> 0)
                    /\ last' = Call("create", email, None,
                                    Loaded(us2, nextId),
                                    create_send(nextId, sendOk))
    /\ UNCHANGED <<now, pc, loc>>

----------------------------------------------------------------------------
(* UserService.login_user *)

\* login_write with the lock threshold off by one
login_write_LocksLate(u, password, t) ==
    IF u.email_verified = FALSE THEN [row |-> u, ok |-> FALSE]
    ELSE IF u.is_locked THEN [row |-> u, ok |-> FALSE]
    ELSE IF verify_password(password, u.hashed_password)
    THEN [row |-> [u EXCEPT !.failed_login_attempts = 0,
                            !.last_login_at = t],
          ok |-> TRUE]
    ELSE LET n == u.failed_login_attempts + 1 IN
         [row |-> [u EXCEPT !.failed_login_attempts = n,
                            !.is_locked = IF n > max_login_attempts
                                          THEN TRUE ELSE @],
          ok |-> FALSE]

\* login_write that forgets to reset the counter on success
login_write_KeepsCounter(u, password, t) ==
    IF u.email_verified = FALSE THEN [row |-> u, ok |-> FALSE]
    ELSE IF u.is_locked THEN [row |-> u, ok |-> FALSE]
    ELSE IF verify_password(password, u.hashed_password)
    THEN [row |-> [u EXCEPT !.last_login_at = t], ok |-> TRUE]
    ELSE LET n == u.failed_login_attempts + 1 IN
         [row |-> [u EXCEPT !.failed_login_attempts = n,
                            !.is_locked = IF n >= max_login_attempts
                                          THEN TRUE ELSE @],
          ok |-> FALSE]

\* login_write that compares the password before it looks at the lock
login_write_PasswordFirst(u, password, t) ==
    IF u.email_verified = FALSE THEN [row |-> u, ok |-> FALSE]
    ELSE IF verify_password(password, u.hashed_password)
    THEN [row |-> [u EXCEPT !.failed_login_attempts = 0,
                            !.last_login_at = t],
          ok |-> TRUE]
    ELSE IF u.is_locked THEN [row |-> u, ok |-> FALSE]
    ELSE LET n == u.failed_login_attempts + 1 IN
         [row |-> [u EXCEPT !.failed_login_attempts = n,
                            !.is_locked = IF n >= max_login_attempts
                                          THEN TRUE ELSE @],
          ok |-> FALSE]

\* login_write that counts a wrong password before it looks at the
\* verification flag and the lock
login_write_CountsFirst(u, password, t) ==
    IF ~verify_password(password, u.hashed_password)
    THEN LET n == u.failed_login_attempts + 1 IN
         [row |-> [u EXCEPT !.failed_login_attempts = n,
                            !.is_locked = IF n >= max_login_attempts
                                          THEN TRUE ELSE @],
          ok |-> FALSE]
    ELSE IF u.email_verified = FALSE THEN [row |-> u, ok |-> FALSE]
    ELSE IF u.is_locked THEN [row |-> u, ok |-> FALSE]
    ELSE [row |-> [u EXCEPT !.failed_login_attempts = 0,
                            !.last_login_at = t],
          ok |-> TRUE]

\* login_write that counts wrong passwords but never locks the account
login_write_NeverLocks(u, password, t) ==
    IF u.email_verified = FALSE THEN [row |-> u, ok |-> FALSE]
    ELSE IF u.is_locked THEN [row |-> u, ok |-> FALSE]
    ELSE IF verify_password(password, u.hashed_password)
    THEN [row |-> [u EXCEPT !.failed_login_attempts = 0,
                            !.last_login_at = t],
          ok |-> TRUE]
    ELSE [row |-> [u EXCEPT !.failed_login_attempts = @ + 1],
          ok |-> FALSE]

\* the checks and writes of login_user on the row it loaded
login_write(u, password, t) ==
    IF u.email_verified = FALSE THEN [row |-> u, ok |-> FALSE]
    ELSE IF u.is_locked THEN [row |-> u, ok |-> FALSE]
    ELSE IF verify_password(password, u.hashed_password)
    THEN [row |-> [u EXCEPT !.failed_login_attempts = 0,
                            !.last_login_at = t],
          ok |-> TRUE]
    ELSE LET n == u.failed_login_attempts + 1 IN
         [row |-> [u EXCEPT !.failed_login_attempts = n,
                            !.is_locked = IF n >= max_login_attempts
                                          THEN TRUE ELSE @],
          ok |-> FALSE]

\* what login_user returns for (email, password) on table us
login_result(us, email, password) ==
    LET i == get_by_email(us, email) IN
    IF i = None THEN None
    ELSE IF login_write(us[i], password, 1).ok THEN i ELSE None

\* what login_user(email, password), run at clock reading t, does to the
\* table and the clock
LoginWrites(email, password, t) ==
    LET i == get_by_email(users, email) IN
    /\ IF i = None
       THEN UNCHANGED <<users, now, streak>>
       ELSE LET w == login_write(users[i], password, t) IN
            /\ users' = [users EXCEPT ![i] = w.row]
            /\ now' = IF w.ok THEN t ELSE now
            /\ streak' = [streak EXCEPT ![i] =
                   IF w.ok THEN 0
                   ELSE IF verify_password(password, users[i].hashed_password)
                        THEN @
                        ELSE IF @ < max_login_attempts THEN @ + 1 ELSE @]

LoginUser(email, password, t) ==
    /\ last' = Call("login_user", email, password,
                    Loaded(users, get_by_email(users, email)),
                    login_result(users, email, password))
    /\ LoginWrites(email, password, t)
    /\ UNCHANGED <<nextId, pc, loc>>

----------------------------------------------------------------------------
(* UserService.is_account_locked and the POST /login route *)

\* is_account_locked that reports the lock of verified accounts only
is_account_locked_VerifiedOnly(us, email) ==
    LET i == get_by_email(us, email) IN
    IF i = None THEN FALSE ELSE us[i].is_locked /\ us[i].email_verified

\* user.is_locked if user else False
is_account_locked(us, email) ==
    LET i == get_by_email(us, email) IN
    IF i = None THEN FALSE ELSE us[i].is_locked

\* the response of POST /login: locked accounts are told so (400), every
\* other failure of login_user is bad credentials (401)
login_response(locked, user) ==
    IF locked
    THEN [status |-> 400,
          detail |-> "Account locked due to too many failed login attempts."]
    ELSE IF user # None
    THEN [status |-> 200, detail |-> "bearer"]
    ELSE [status |-> 401, detail |-> "Incorrect email or password."]

\* POST /login with the form (username = email, password)
PostLogin(email, password, t) ==
    LET locked == is_account_locked(users, email) IN
    /\ last' = Call("POST /login", email, password,
                    Loaded(users, get_by_email(users, email)),
                    login_response(locked,
                                   login_result(users, email, password)))
    /\ IF locked
       THEN UNCHANGED <<users, now, streak>>
       ELSE LoginWrites(email, password, t)
    /\ UNCHANGED <<nextId, pc, loc>>

\* an account without a verification token
NoToken == <<"none", 0>>

\* the locked_user fixture: an account stored directly, unverified, locked,
\* with its counter at the maximum
locked_user(email, nickname, password, salt) ==
    LET row == [User(email, nickname, hash_password(password, salt), NoToken)
                   EXCEPT !.is_locked = TRUE,
                          !.failed_login_attempts = max_login_attempts]
    IN
    /\ nextId <= MaxIds
    /\ UniqueOK(users, nextId, row)
    /\ users' = users @@ (nextId :> row)
    /\ nextId' = nextId + 1
    /\ streak' = streak @@ (nextId :> 0)
    /\ last' = Call("locked_user", email, None, {}, nextId)
    /\ UNCHANGED <<now, pc, loc>>

----------------------------------------------------------------------------
(* main.exception_handler *)

\* the messages of the exceptions that reach the handler
ExcMessages == {"Failed to generate a valid nickname", "Connection refused"}

\* JSONResponse(status_code=500, content={"message": f"...: {str(exc)}"}):
\* the f-string as the pair of its fixed text and the message it embeds
exception_handler(exc) ==
    [status_code |-> 500,
     content |-> [message |-> <<"An unexpected error occurred: ", exc>>]]

ExceptionHandler(exc) ==
    /\ last' = Call("exception_handler", exc, None, {},
                    exception_handler(exc))
    /\ UNCHANGED <<users, nextId, now, streak, pc, loc>>

----------------------------------------------------------------------------
(* UserService.update *)

\* update_data: a dict with the given keys; Unset leaves the key out
UpdateData(email, nickname, password, role) ==
    [k \in {"email" : x \in {email} \ {Unset}}
          \cup {"nickname" : x \in {nickname} \ {Unset}}
          \cup {"password" : x \in {password} \ {Unset}}
          \cup {"role" : x \in {role} \ {Unset}} |->
        IF k = "email" THEN email
        ELSE IF k = "nickname" THEN nickname
        ELSE IF k = "password" THEN password
        ELSE role]

\* the fields UserUpdate declares, of the columns the model carries
UserUpdateFields == {"email", "nickname"}

\* UserUpdate(**update_data): at least one value is given and a given email
\* is well formed
UserUpdateValid(update_data) ==
    /\ DOMAIN update_data # {}
    /\ "email" \in DOMAIN update_data => update_data["email"] \in Emails

\* validated_data that keeps the keys UserUpdate does not declare
validated_data_KeepsExtra(update_data) == update_data

\* .dict(exclude_unset=True): the declared fields that were given; a key
\* the schema does not declare is ignored
validated_data(update_data) ==
    [k \in DOMAIN update_data \cap UserUpdateFields |-> update_data[k]]

\* a 'password' in validated_data becomes hashed_password;
\* .values(**validated_data): the row with the given columns replaced
update_values(u, data, salt) ==
    [u EXCEPT
        !.email = IF "email" \in DOMAIN data THEN data["email"] ELSE @,
        !.nickname =
            IF "nickname" \in DOMAIN data THEN data["nickname"] ELSE @,
        !.hashed_password =
            IF "password" \in DOMAIN data
            THEN hash_password(data["password"], salt) ELSE @,
        !.role = IF "role" \in DOMAIN data THEN data["role"] ELSE @]

\* _execute_query(update(User).where(User.id == user_id)...): the table after
\* the statement; a statement that breaks a unique constraint is rolled back
update_query(us, user_id, data, salt) ==
    IF user_id \notin DOMAIN us THEN us
    ELSE LET row == update_values(us[user_id], data, salt) IN
         IF UniqueOK(us, user_id, row)
         THEN [us EXCEPT ![user_id] = row]
         ELSE us

Update(user_id, update_data, salt) ==
    /\ IF ~UserUpdateValid(update_data)
       THEN /\ users' = users
            /\ last' = Call("update", user_id, None, {}, None)
       ELSE /\ users' = update_query(users, user_id,
                                     validated_data(update_data), salt)
            /\ last' = Call("update", user_id, None, {},
                            get_by_id(users', user_id))
    /\ UNCHANGED <<nextId, now, streak, pc, loc>>

----------------------------------------------------------------------------
(* UserService.delete *)

\* delete_row that reports the delete without removing the row
delete_row_Keeps(us, user_id) == us

\* session.delete(user); commit()
delete_row(us, user_id) == [i \in DOMAIN us \ {user_id} |-> us[i]]

Delete(user_id) ==
    /\ IF get_by_id(users, user_id) = None
       THEN /\ last' = Call("delete", user_id, None,
                            Loaded(users, user_id), FALSE)
            /\ UNCHANGED <<users, streak>>
       ELSE /\ users' = delete_row(users, user_id)
            /\ streak' = delete_row(streak, user_id)
            /\ last' = Call("delete", user_id, None,
                            Loaded(users, user_id), TRUE)
    /\ UNCHANGED <<nextId, now, pc, loc>>

----------------------------------------------------------------------------
(* UserService.reset_password *)

\* reset_write that stores the hash but leaves the counter
reset_write_KeepsCounter(u, hashed) ==
    [u EXCEPT !.hashed_password = hashed,
              !.is_locked = FALSE]

\* reset_write that clears the counter but leaves the lock
reset_write_KeepsLock(u, hashed) ==
    [u EXCEPT !.hashed_password = hashed,
              !.failed_login_attempts = 0]

\* the writes of reset_password on the row it loaded
reset_write(u, hashed) ==
    [u EXCEPT !.hashed_password = hashed,
              !.failed_login_attempts = 0,
              !.is_locked = FALSE]

ResetPassword(user_id, new_password, salt) ==
    /\ IF get_by_id(users, user_id) = None
       THEN /\ last' = Call("reset_password", user_id, new_password,
                            Loaded(users, user_id), FALSE)
            /\ UNCHANGED <<users, streak>>
       ELSE /\ users' = [users EXCEPT ![user_id] =
                            reset_write(@, hash_password(new_password, salt))]
            /\ streak' = [streak EXCEPT ![user_id] = 0]
            /\ last' = Call("reset_password", user_id, new_password,
                            Loaded(users, user_id), TRUE)
    /\ UNCHANGED <<nextId, now, pc, loc>>

----------------------------------------------------------------------------
(* UserService.verify_email_with_token *)

\* verify_accepts that takes any token issued by the service
verify_accepts_AnyIssued(u, token) == token[2] >= 1

\* does verify_email_with_token accept the token for the row it loaded
verify_accepts(u, token) == u.verification_token = token

\* verify_write that consumes the token on success
verify_write_Consumes(u) ==
    [u EXCEPT !.email_verified = TRUE,
              !.verification_token = generate_verification_token(0)]

\* the write of verify_email_with_token
verify_write(u) == [u EXCEPT !.email_verified = TRUE]

VerifyEmail(email, token) ==
    LET i == get_by_email(users, email) IN
    /\ IF i = None \/ ~verify_accepts(users[i], token)
       THEN /\ last' = Call("verify_email_with_token", email, token,
                            Loaded(users, i), FALSE)
            /\ UNCHANGED <<users, streak>>
       ELSE /\ users' = [users EXCEPT ![i] = verify_write(@)]
            /\ streak' = [streak EXCEPT ![i] =
                             IF users[i].email_verified THEN @ ELSE 0]
            /\ last' = Call("verify_email_with_token", email, token,
                            Loaded(users, i), TRUE)
    /\ UNCHANGED <<nextId, now, pc, loc>>

----------------------------------------------------------------------------
(* UserService.unlock_user_account *)

\* unlock_write that clears the lock but leaves the counter
unlock_write_KeepsCounter(u) == [u EXCEPT !.is_locked = FALSE]

\* the writes of unlock_user_account on the row it loaded
unlock_write(u) ==
    [u EXCEPT !.is_locked = FALSE, !.failed_login_attempts = 0]

Unlock(user_id) ==
    /\ IF get_by_id(users, user_id) # None /\ users[user_id].is_locked
       THEN /\ users' = [users EXCEPT ![user_id] = unlock_write(@)]
            /\ streak' = [streak EXCEPT ![user_id] = 0]
            /\ last' = Call("unlock_user_account", user_id, None,
                            Loaded(users, user_id), TRUE)
       ELSE /\ last' = Call("unlock_user_account", user_id, None,
                            Loaded(users, user_id), FALSE)
            /\ UNCHANGED <<users, streak>>
    /\ UNCHANGED <<nextId, now, pc, loc>>

----------------------------------------------------------------------------
(* Sequential execution: one whole handler at a time *)

\* the payloads of create: one malformed email, one malformed nickname, and
\* every well-formed combination; gen is what generate_nickname() would give
DoCreate ==
    \/ \E password \in {"pw1"} :
           Create(BadEmail, NoneStr, password, "", "s1", TRUE)
    \/ \E email \in Emails :
           Create(email, BadNickname, "pw1", "", "s1", TRUE)
    \/ \E email \in Emails, nickname \in Nicknames, password \in Passwords,
          salt \in Salts, sendOk \in BOOLEAN :
           Create(email, nickname, password, "", salt, sendOk)
    \/ \E email \in Emails, gen \in Nicknames \cup {""},
          password \in Passwords, salt \in Salts, sendOk \in BOOLEAN :
           Create(email, NoneStr, password, gen, salt, sendOk)

DoLogin ==
    \E email \in Emails, password \in Passwords, t \in now..MaxClock :
        LoginUser(email, password, t)

\* the payloads of update: one malformed email, and every combination of
\* the declared fields, alone or with the keys password and role
DoUpdate ==
    \/ \E user_id \in Ids :
           Update(user_id, UpdateData(BadEmail, Unset, Unset, Unset), "s1")
    \/ \E user_id \in Ids, email \in Emails \cup {Unset},
          nickname \in Nicknames \cup {Unset}, salt \in Salts :
           \/ Update(user_id, UpdateData(email, nickname, Unset, Unset),
                     salt)
           \/ Update(user_id, UpdateData(email, nickname, "pw3", "ADMIN"),
                     salt)

DoDelete == \E user_id \in Ids : Delete(user_id)

DoResetPassword ==
    \E user_id \in Ids, new_password \in Passwords, salt \in Salts :
        ResetPassword(user_id, new_password, salt)

DoVerifyEmail ==
    \E email \in Emails, token \in Tokens : VerifyEmail(email, token)

DoUnlock == \E user_id \in Ids : Unlock(user_id)

Next ==
    \/ DoCreate
    \/ DoLogin
    \/ DoUpdate
    \/ DoDelete
    \/ DoResetPassword
    \/ DoVerifyEmail
    \/ DoUnlock

Spec == Init /\ [][Next]_vars

----------------------------------------------------------------------------
(* Concurrent requests: create() split at its awaits *)

\* await cls.get_by_email(...): validation and the lookup
CreateLookup(p, email, nickname, password) ==
    /\ pc[p] = "idle"
    /\ IF create_rejects(users, email, nickname)
       THEN /\ last' = Call("create", email, None, {}, None)
            /\ UNCHANGED <<pc, loc>>
       ELSE /\ pc' = [pc EXCEPT ![p] = "create_commit"]
            /\ loc' = [loc EXCEPT ![p] =
                   [email |-> email, nickname |-> nickname,
                    password |-> password, id |-> None]]
            /\ last' = Call("await", email, None, {}, None)
    /\ UNCHANGED <<users, nextId, now, streak>>

\* hash, nickname, token, session.add, await session.commit()
CreateCommit(p, gen, salt) ==
    LET d == loc[p]
        nick == create_nickname(d.nickname, gen)
        row == User(d.email, nick, hash_password(d.password, salt),
                    generate_verification_token(nextId))
        us2 == create_commit(users, nextId, row)
    IN
    /\ pc[p] = "create_commit"
    /\ IF nick = ""
       THEN /\ last' = Call("create", d.email, None, {}, Raised)
            /\ pc' = [pc EXCEPT ![p] = "idle"]
            /\ loc' = [loc EXCEPT ![p] = None]
            /\ UNCHANGED <<users, nextId, streak>>
       ELSE /\ nextId <= MaxIds
            /\ users' = us2
            /\ IF ~UniqueOK(users, nextId, row)
               THEN /\ last' = Call("create", d.email, None, {}, Raised)
                    /\ pc' = [pc EXCEPT ![p] = "idle"]
                    /\ loc' = [loc EXCEPT ![p] = None]
                    /\ UNCHANGED <<nextId, streak>>
               ELSE /\ nextId' = nextId + 1
                    /\ streak' = streak @@ (nextId :> 0)
                    /\ pc' = [pc EXCEPT ![p] = "create_send"]
                    /\ loc' = [loc EXCEPT ![p] = [d EXCEPT !.id = nextId]]
                    /\ last' = Call("await", d.email, None, {}, None)
    /\ UNCHANGED now

\* await email_service.send_verification_email(new_user); return new_user
CreateSend(p, sendOk) ==
    /\ pc[p] = "create_send"
    /\ last' = Call("create", loc[p].email, None,
                    Loaded(users, loc[p].id),
                    create_send(loc[p].id, sendOk))
    /\ users' = create_after_send(users, loc[p].id, sendOk)
    /\ pc' = [pc EXCEPT ![p] = "idle"]
    /\ loc' = [loc EXCEPT ![p] = None]
    /\ UNCHANGED <<nextId, now, streak>>

DoCreateLookup ==
    \/ \E p \in Procs : CreateLookup(p, BadEmail, NoneStr, "pw1")
    \/ \E p \in Procs, email \in Emails :
           CreateLookup(p, email, BadNickname, "pw1")
    \/ \E p \in Procs, email \in Emails,
          nickname \in Nicknames \cup {NoneStr}, password \in Passwords :
           CreateLookup(p, email, nickname, password)

DoCreateCommit ==
    \E p \in Procs, gen \in Nicknames \cup {""}, salt \in Salts :
        CreateCommit(p, gen, salt)

DoCreateSend == \E p \in Procs, sendOk \in BOOLEAN : CreateSend(p, sendOk)

NextConc ==
    \/ DoCreateLookup
    \/ DoCreateCommit
    \/ DoCreateSend
    \/ DoUpdate
    \/ DoDelete

SpecConc == Init /\ [][NextConc]_vars

----------------------------------------------------------------------------
(* Concurrent requests: login_user split at its awaits *)

\* login_commit as one atomic statement: a counted failure adds one to the
\* counter that is stored at the time of the write
login_commit_Atomic(cur, read, new) ==
    IF new.failed_login_attempts = read.failed_login_attempts + 1
    THEN [cur EXCEPT !.failed_login_attempts = @ + 1,
                     !.is_locked = IF cur.failed_login_attempts + 1
                                        >= max_login_attempts
                                   THEN TRUE ELSE @]
    ELSE [cur EXCEPT !.failed_login_attempts = new.failed_login_attempts,
                     !.last_login_at = new.last_login_at]

\* session.add(user); await session.commit(): the columns the call changed
\* on the row it read are written over the stored row
login_commit(cur, read, new) ==
    [cur EXCEPT
        !.failed_login_attempts =
            IF new.failed_login_attempts # read.failed_login_attempts
            THEN new.failed_login_attempts ELSE @,
        !.is_locked =
            IF new.is_locked # read.is_locked THEN new.is_locked ELSE @,
        !.last_login_at =
            IF new.last_login_at # read.last_login_at
            THEN new.last_login_at ELSE @]

\* user = await cls.get_by_email(session, email): the row is read; a call
\* that finds no account, an unverified or a locked one returns None
LoginRead(p, email, password) ==
    LET i == get_by_email(users, email) IN
    /\ pc[p] = "idle"
    /\ IF i = None \/ users[i].email_verified = FALSE \/ users[i].is_locked
       THEN /\ last' = Call("login_user", email, password,
                            Loaded(users, i), None)
            /\ streak' = IF i = None
                            \/ verify_password(password,
                                               users[i].hashed_password)
                         THEN streak
                         ELSE [streak EXCEPT ![i] =
                                  IF @ < max_login_attempts
                                  THEN @ + 1 ELSE @]
            /\ UNCHANGED <<pc, loc>>
       ELSE /\ pc' = [pc EXCEPT ![p] = "login_commit"]
            /\ loc' = [loc EXCEPT ![p] =
                   [email |-> email, password |-> password, id |-> i,
                    row |-> users[i]]]
            /\ last' = Call("await", email, None, {}, None)
            /\ UNCHANGED streak
    /\ UNCHANGED <<users, nextId, now>>

\* the password comparison on the row that was read, the writes to it and
\* await session.commit()
LoginCommit(p, t) ==
    LET d == loc[p]
        w == login_write(d.row, d.password, t)
    IN
    /\ pc[p] = "login_commit"
    /\ users' = [users EXCEPT ![d.id] = login_commit(@, d.row, w.row)]
    /\ now' = IF w.ok THEN t ELSE now
    /\ streak' = [streak EXCEPT ![d.id] =
                     IF w.ok THEN 0
                     ELSE IF @ < max_login_attempts THEN @ + 1 ELSE @]
    /\ last' = Call("login_user", d.email, d.password, {d.row},
                    IF w.ok THEN d.id ELSE None)
    /\ pc' = [pc EXCEPT ![p] = "idle"]
    /\ loc' = [loc EXCEPT ![p] = None]
    /\ UNCHANGED nextId

DoLoginRead ==
    \E p \in Procs, email \in Emails, password \in Passwords :
        LoginRead(p, email, password)

DoLoginCommit ==
    \E p \in Procs, t \in now..MaxClock : LoginCommit(p, t)

\* the registration the login requests run against: one account, its
\* payload well formed, the email sent
DoRegister ==
    \E nickname \in Nicknames :
        Create("a@x.com", nickname, "pw1", "", "s1", TRUE)

NextRace ==
    \/ DoRegister
    \/ DoVerifyEmail
    \/ DoLoginRead
    \/ DoLoginCommit

SpecRace == Init /\ [][NextRace]_vars

----------------------------------------------------------------------------
(* jwt_service: create_access_token and decode_token *)

MaxTime == 3           \* clock readings 1..MaxTime of the token service
MaxDelta == 1          \* expires_delta in 0..MaxDelta
MaxRoleLen == 2        \* plain role strings of every case up to this length
access_token_expire_minutes == 2    \* settings.access_token_expire_minutes

NoDelta == 0 - 1       \* expires_delta=None
jwt_secret_key == "secret"          \* settings.jwt_secret_key
OtherKey == "other"                 \* a key that is not the configured one

\* strings are sequences of characters; str.upper() maps a..z to A..Z and
\* leaves every other character
Lowers ==
    <<"a", "b", "c", "d", "e", "f", "g", "h", "i", "j", "k", "l",
    "m", "n", "o", "p", "q", "r", "s", "t", "u", "v", "w", "x", "y",
    "z">>
Uppers ==
    <<"A", "B", "C", "D", "E", "F", "G", "H", "I", "J", "K", "L",
    "M", "N", "O", "P", "Q", "R", "S", "T", "U", "V", "W", "X", "Y",
    "Z">>

UpperChar(c) ==
    IF \E k \in DOMAIN Lowers : Lowers[k] = c
    THEN Uppers[CHOOSE k \in DOMAIN Lowers : Lowers[k] = c]
    ELSE c

upper(str) == [k \in DOMAIN str |-> UpperChar(str[k])]

\* class UserRole(str, Enum): the members, each with its name and value
UserRole ==
    {[name |-> <<"A", "N", "O", "N", "Y", "M", "O", "U", "S">>,
      value |-> <<"A", "N", "O", "N", "Y", "M", "O", "U", "S">>],
     [name |-> <<"A", "U", "T", "H", "E", "N", "T", "I", "C", "A", "T", "E",
                 "D">>,
      value |-> <<"A", "U", "T", "H", "E", "N", "T", "I", "C", "A", "T", "E",
                  "D">>],
     [name |-> <<"M", "A", "N", "A", "G", "E", "R">>,
      value |-> <<"M", "A", "N", "A", "G", "E", "R">>],
     [name |-> <<"A", "D", "M", "I", "N">>,
      value |-> <<"A", "D", "M", "I", "N">>]}

\* the plain strings given as role: every string over RoleChars up to
\* MaxRoleLen, and the role names in lower, mixed and upper case
RoleChars == {"a", "D"}
RoleWords ==
    UNION {[1..n -> RoleChars] : n \in 0..MaxRoleLen}
        \cup {<<"a", "u", "t", "h", "e", "n", "t", "i", "c", "a", "t", "e",
                "d">>,
              <<"A", "d", "m", "i", "n">>,
              <<"M", "A", "N", "A", "G", "E", "R">>}

\* a role as handed to create_access_token: an enum member (it has a value
\* attribute) or a plain string
Roles == UserRole \cup {[str |-> w] : w \in RoleWords}

\* data: sub, with or without a role
Subs == {"id1", "id2"}
TokenData ==
    {[sub |-> sub] : sub \in Subs}
        \cup {[sub |-> sub, role |-> r] : sub \in Subs, r \in Roles}

\* role_claim that stores the role as it was given
role_claim_AsGiven(role) ==
    IF "value" \in DOMAIN role THEN role.value ELSE role.str

\* to_encode['role']: role.value.upper() for an enum member, str(role).upper()
\* otherwise
role_claim(role) ==
    IF "value" \in DOMAIN role THEN upper(role.value) ELSE upper(role.str)

\* token_expire that always takes the configured default
token_expire_DefaultOnly(expires_delta, t) ==
    t + access_token_expire_minutes

\* expire: utcnow() + expires_delta when one is given, else
\* utcnow() + timedelta(minutes=settings.access_token_expire_minutes)
token_expire(expires_delta, t) ==
    IF expires_delta # NoDelta
    THEN t + expires_delta
    ELSE t + access_token_expire_minutes

\* jwt.encode: the payload and a signature that only the key produces for it
jwt_encode(payload, key) == [payload |-> payload, sig |-> <<key, payload>>]

\* what a failed jwt.decode leaves the caller with
InvalidToken == [error |-> "InvalidToken"]

\* jwt.decode at time t: the signature is verified, then exp
jwt_decode(token, key, t) ==
    IF token.sig # <<key, token.payload>> THEN InvalidToken
    ELSE IF token.payload.exp <= t THEN InvalidToken
    ELSE token.payload

create_access_token(data, expires_delta, t) ==
    LET to_encode ==
            [k \in DOMAIN data \cup {"exp"} |->
                IF k = "exp" THEN token_expire(expires_delta, t)
                ELSE IF k = "role" THEN role_claim(data.role)
                ELSE data[k]]
    IN jwt_encode(to_encode, jwt_secret_key)

decode_token(token, t) == jwt_decode(token, jwt_secret_key, t)

\* the tokens a caller can present once it was handed token: the token, the
\* same payload signed with another key, and the token with its exp pushed
\* beyond every clock reading under the old signature
Presentable(token) ==
    {token,
     jwt_encode(token.payload, OtherKey),
     [token EXCEPT !.payload.exp = MaxTime + 1]}

CreateAccessToken(data, expires_delta, t) ==
    /\ last' = Call("create_access_token", data, expires_delta, {},
                    create_access_token(data, expires_delta, t))
    /\ now' = t
    /\ UNCHANGED <<users, nextId, streak, pc, loc>>

DecodeToken(token, t) ==
    /\ last' = Call("decode_token", token, None, {}, decode_token(token, t))
    /\ now' = t
    /\ UNCHANGED <<users, nextId, streak, pc, loc>>

DoCreateAccessToken ==
    \E data \in TokenData, expires_delta \in (0..MaxDelta) \cup {NoDelta},
       t \in now..MaxTime :
        CreateAccessToken(data, expires_delta, t)

\* a token is presented that was issued by the last call or presented to it
DoDecodeToken ==
    \/ /\ last.op = "create_access_token"
       /\ \E token \in Presentable(last.result), t \in now..MaxTime :
              DecodeToken(token, t)
    \/ /\ last.op = "decode_token"
       /\ \E token \in Presentable(last.key), t \in now..MaxTime :
              DecodeToken(token, t)

NextJwt ==
    \/ DoCreateAccessToken
    \/ DoDecodeToken

SpecJwt == Init /\ [][NextJwt]_vars

----------------------------------------------------------------------------
(* The API: routes over the service, accounts stored by the fixtures *)

DoLockedUser ==
    \E email \in Emails, nickname \in Nicknames, password \in Passwords,
       salt \in Salts :
        locked_user(email, nickname, password, salt)

DoPostLogin ==
    \E email \in Emails, password \in Passwords, t \in now..MaxClock :
        PostLogin(email, password, t)

DoExceptionHandler == \E exc \in ExcMessages : ExceptionHandler(exc)

NextApi ==
    \/ DoCreate
    \/ DoLockedUser
    \/ DoVerifyEmail
    \/ DoPostLogin
    \/ DoUnlock
    \/ DoExceptionHandler

SpecApi == Init /\ [][NextApi]_vars

----------------------------------------------------------------------------
(* Vocabulary of the claims *)

\* the step is a completed call of operation op
Called(op) == last'.op = op

\* the account a login_user / verify_email_with_token call addresses
Target == get_by_email(users, last'.key)

\* the columns login_user may write
LoginColumns(u) ==
    <<u.failed_login_attempts, u.is_locked, u.last_login_at>>

----------------------------------------------------------------------------
(* C1 *)

\* C1 as claimed: for ALL accounts, max_login_attempts consecutive
\* wrong-password logins leave the account locked.
C1_AsClaimed ==
    \A i \in DOMAIN users :
        streak[i] >= max_login_attempts => users[i].is_locked

\* C1 (amended): for every account whose email is verified, after N >=
\* max_login_attempts consecutive wrong-password logins is_locked is true;
\* a locked account stays locked through every later call except
\* unlock_user_account or reset_password on that account (or its deletion);
\* and a login on a locked account is rejected whatever the password.
C1_LockoutHolds ==
    /\ [](\A i \in DOMAIN users :
            users[i].email_verified /\ streak[i] >= max_login_attempts
                => users[i].is_locked)
    /\ [][\A i \in DOMAIN users :
            ( /\ users[i].is_locked
              /\ i \in DOMAIN users'
              /\ ~(Called("unlock_user_account") /\ last'.key = i)
              /\ ~(Called("reset_password") /\ last'.key = i) )
                => users'[i].is_locked]_vars
    /\ [][(Called("login_user") /\ Target # None /\ users[Target].is_locked)
            => last'.result = None]_vars

\* a verified account was locked by wrong passwords, and the last call was a
\* login on the already locked account with the correct password, rejected
C1_Witness ==
    \E i \in DOMAIN users :
        /\ users[i].email_verified
        /\ streak[i] >= max_login_attempts
        /\ users[i].is_locked
        /\ last.op = "login_user"
        /\ last.key = users[i].email
        /\ \E u \in last.pre : u.is_locked
        /\ verify_password(last.inp, users[i].hashed_password)
        /\ last.result = None

----------------------------------------------------------------------------
(* C2 *)

\* C2: in every state reachable from registration by the service
\* operations, a locked account has failed_login_attempts >=
\* max_login_attempts.
C2_LockedOnlyAtMax ==
    \A i \in DOMAIN users :
        users[i].is_locked
            => users[i].failed_login_attempts >= max_login_attempts

\* an account is locked and a later update of it has gone through
C2_Witness ==
    \E i \in DOMAIN users :
        /\ users[i].is_locked
        /\ last.op = "update"
        /\ last.key = i
        /\ last.result = i

----------------------------------------------------------------------------
(* C3 *)

\* C3: every login_user call that returns the account leaves it with
\* failed_login_attempts = 0 and last_login_at set to a time not earlier
\* than its previous value.
C3_SuccessfulLogin ==
    [][(Called("login_user") /\ last'.result # None) =>
         LET i == last'.result IN
         /\ users'[i].failed_login_attempts = 0
         /\ users'[i].last_login_at # None
         /\ users[i].last_login_at # None
              => users'[i].last_login_at >= users[i].last_login_at]_vars

\* a login succeeded on an account that had failed attempts on its counter
\* and an earlier last_login_at
C3_Witness ==
    /\ last.op = "login_user"
    /\ last.result # None
    /\ \E u \in last.pre :
          /\ u.failed_login_attempts > 0
          /\ u.last_login_at # None
    /\ users[last.result].failed_login_attempts = 0

----------------------------------------------------------------------------
(* C4 *)

\* C4: login_user checks, in this order, account-not-found,
\* email-not-verified, account-locked, password; the first failing check
\* decides: the account is returned exactly when it exists, is verified, is
\* not locked and the password matches, every other outcome is None, and
\* only a call that reaches the password comparison writes to the account.
C4_LoginOrder ==
    [][Called("login_user") =>
         LET i == Target
             reaches == /\ i # None
                        /\ users[i].email_verified
                        /\ ~users[i].is_locked
             matches == verify_password(last'.inp, users[i].hashed_password)
         IN
         /\ last'.result = IF reaches /\ matches THEN i ELSE None
         /\ ~reaches => users' = users
         /\ (reaches /\ ~matches) =>
               users'[i].failed_login_attempts =
                   users[i].failed_login_attempts + 1]_vars

\* a login with a wrong password on an unverified account was decided by the
\* verification check: rejected, and the counter was not touched
C4_Witness ==
    \E i \in DOMAIN users :
        /\ last.op = "login_user"
        /\ last.key = users[i].email
        /\ ~users[i].email_verified
        /\ ~verify_password(last.inp, users[i].hashed_password)
        /\ last.result = None
        /\ users[i].failed_login_attempts = 0

----------------------------------------------------------------------------
(* C5 *)

\* C5: a login_user call on an account that is locked or not verified
\* leaves its failed_login_attempts, is_locked and last_login_at unchanged,
\* whatever the password and however often it is repeated.
C5_LoginFrame ==
    [][(/\ Called("login_user")
        /\ Target # None
        /\ (users[Target].is_locked \/ ~users[Target].email_verified))
          => LoginColumns(users'[Target]) = LoginColumns(users[Target])]_vars

\* a wrong-password login on an account that was already locked left the
\* counter at the value that locked it
C5_Witness ==
    \E i \in DOMAIN users :
        /\ last.op = "login_user"
        /\ last.key = users[i].email
        /\ \E u \in last.pre : u.is_locked
        /\ ~verify_password(last.inp, users[i].hashed_password)
        /\ users[i].is_locked
        /\ users[i].failed_login_attempts = max_login_attempts

----------------------------------------------------------------------------
(* C6 *)

\* the emails stored in table us
StoredEmails(us) == {us[i].email : i \in DOMAIN us}

----------------------------------------------------------------------------
(* C7 *)

\* C7: in every reachable state no two distinct accounts share an email and
\* no two distinct accounts share a nickname.
C7_UniqueIdentity ==
    \A i \in DOMAIN users : \A j \in DOMAIN users \ {i} :
        /\ users[i].email # users[j].email
        /\ users[i].nickname # users[j].nickname

\* two accounts exist and an update of one of them has gone through
C7_Witness ==
    /\ count(users) = 2
    /\ last.op = "update"
    /\ last.result # None

----------------------------------------------------------------------------
(* C8 *)

\* C8: verify_email_with_token returns false and leaves every account as it
\* was when no account has the email or the token is not the stored one;
\* on a match it sets email_verified of that account, changes nothing else
\* and returns true.
C8_VerifyFailsClosed ==
    [][Called("verify_email_with_token") =>
         LET i == Target IN
         IF i = None \/ users[i].verification_token # last'.inp
         THEN last'.result = FALSE /\ users' = users
         ELSE /\ last'.result = TRUE
              /\ users' = [users EXCEPT ![i].email_verified = TRUE]]_vars

\* an unverified account was presented the token of another account:
\* refused, and still unverified
C8_Witness ==
    \E i \in DOMAIN users : \E j \in DOMAIN users \ {i} :
        /\ last.op = "verify_email_with_token"
        /\ last.key = users[i].email
        /\ last.inp = users[j].verification_token
        /\ last.result = FALSE
        /\ ~users[i].email_verified

----------------------------------------------------------------------------
(* C9 *)

\* C9 as claimed: once verify_email_with_token has succeeded for an account,
\* presenting its token again does not succeed.
C9_AsClaimed ==
    ~( /\ last.op = "verify_email_with_token"
       /\ \E u \in last.pre :
             u.email_verified /\ u.verification_token = last.inp
       /\ last.result = TRUE )

\* C9 (amended): the verification token is not consumed: no call changes the
\* stored verification_token of an account, and after a successful
\* verify_email_with_token the same token is still accepted for the account
\* (a repeated call returns true and leaves email_verified true).
C9_TokenNotConsumed ==
    /\ [][\A i \in DOMAIN users \cap DOMAIN users' :
            users'[i].verification_token = users[i].verification_token]_vars
    /\ [][(Called("verify_email_with_token") /\ last'.result = TRUE)
            => /\ verify_accepts(users'[Target], last'.inp)
               /\ users'[Target].email_verified]_vars
    /\ [][(/\ Called("verify_email_with_token")
           /\ Target # None
           /\ users[Target].email_verified
           /\ last'.inp = users[Target].verification_token)
            => last'.result = TRUE]_vars

\* the token was presented for an account that was already verified, and
\* the call returned true again
C9_Witness ==
    /\ last.op = "verify_email_with_token"
    /\ \E u \in last.pre :
          u.email_verified /\ u.verification_token = last.inp
    /\ last.result = TRUE

----------------------------------------------------------------------------
(* C10 *)

\* C10: reset_password on an existing account stores a hash of the new
\* password, sets failed_login_attempts to 0 and is_locked to false, changes
\* nothing else and returns true, so that a verified account logs in with
\* the new password right away; on an unknown id it returns false and
\* changes nothing.
C10_ResetPassword ==
    [][Called("reset_password") =>
         LET i == last'.key IN
         IF i \notin DOMAIN users
         THEN last'.result = FALSE /\ users' = users
         ELSE /\ last'.result = TRUE
              /\ DOMAIN users' = DOMAIN users
              /\ \A j \in DOMAIN users \ {i} : users'[j] = users[j]
              /\ \E salt \in Salts :
                    users'[i] = [users[i] EXCEPT
                        !.hashed_password = hash_password(last'.inp, salt),
                        !.failed_login_attempts = 0,
                        !.is_locked = FALSE]
              /\ users'[i].email_verified
                    => login_result(users', users'[i].email, last'.inp) = i
        ]_vars

\* a locked account had its password reset to a new one: unlocked, counter
\* at 0, and the new password verifies
C10_Witness ==
    /\ last.op = "reset_password"
    /\ last.result = TRUE
    /\ \E u \in last.pre :
          /\ u.is_locked
          /\ ~verify_password(last.inp, u.hashed_password)
    /\ ~users[last.key].is_locked
    /\ users[last.key].failed_login_attempts = 0
    /\ login_result(users, users[last.key].email, last.inp) = last.key

----------------------------------------------------------------------------
(* C11 *)

\* C11: unlock_user_account on a locked account sets is_locked to false and
\* failed_login_attempts to 0, leaves hashed_password (and every other
\* column and account) unchanged and returns true; when the account does
\* not exist or is not locked it returns false and changes no state, so a
\* non-zero counter of an unlocked account is not reset.
C11_Unlock ==
    [][Called("unlock_user_account") =>
         LET i == last'.key IN
         IF i \in DOMAIN users /\ users[i].is_locked
         THEN /\ last'.result = TRUE
              /\ users' = [users EXCEPT ![i].is_locked = FALSE,
                                        ![i].failed_login_attempts = 0]
              /\ users'[i].hashed_password = users[i].hashed_password
         ELSE /\ last'.result = FALSE
              /\ users' = users]_vars

\* a locked account was unlocked: the call returned true, the lock is gone
\* and the counter that had reached the maximum is back at 0
C11_Witness ==
    /\ last.op = "unlock_user_account"
    /\ last.result = TRUE
    /\ \E u \in last.pre :
          /\ u.is_locked
          /\ u.failed_login_attempts >= max_login_attempts
          /\ users[last.key].hashed_password = u.hashed_password
    /\ ~users[last.key].is_locked
    /\ users[last.key].failed_login_attempts = 0

----------------------------------------------------------------------------
(* C12 *)

\* C12: when the verification email cannot be sent, the account that
\* create() has committed is not rolled back: the commit step leaves the
\* account readable by get_by_id and get_by_email, and the send step that
\* ends with the exception changes no row, so the account is still
\* readable after it.
C12_NotRolledBack ==
    /\ [][\A p \in Procs :
            (pc[p] = "create_commit" /\ pc'[p] = "create_send") =>
                LET id == loc'[p].id IN
                /\ get_by_id(users', id) = id
                /\ get_by_email(users', loc'[p].email) = id]_vars
    /\ [][\A p \in Procs :
            ( /\ pc[p] = "create_send"
              /\ pc'[p] = "idle"
              /\ last'.result = Raised ) =>
                LET id == loc[p].id IN
                /\ users' = users
                /\ id \in DOMAIN users =>
                      /\ get_by_id(users', id) = id
                      /\ get_by_email(users', users[id].email) = id]_vars

\* a create call ended with the exception of the email step, and the
\* account it committed is stored and found under its email
C12_Witness ==
    /\ last.op = "create"
    /\ last.result = Raised
    /\ \E i \in DOMAIN users :
          /\ users[i] \in last.pre
          /\ get_by_id(users, i) = i
          /\ get_by_email(users, last.key) = i

----------------------------------------------------------------------------
(* C13 *)

\* C13 as claimed: a create call that has committed its account and then
\* fails to send the verification email still completes with the created
\* account as its result, never with an error.
C13_AsClaimed ==
    (last.op = "create" /\ last.pre # {})
        => (last.result \in DOMAIN users /\ users[last.result] \in last.pre)

----------------------------------------------------------------------------
(* C19 *)

\* C19: the verification email is never dispatched before the account is
\* committed: a request reaches the send step only by the commit step that
\* inserted its row, a request at the send step holds the id of a committed
\* row, and a registration that is rejected (validation, duplicate email)
\* returns None from the lookup step without any send step.
C19_SendAfterCommit ==
    /\ [][\A p \in Procs :
            (pc'[p] = "create_send" /\ pc[p] # "create_send") =>
                /\ pc[p] = "create_commit"
                /\ loc'[p].id \in DOMAIN users' \ DOMAIN users
                /\ users'[loc'[p].id].email = loc'[p].email]_vars
    /\ [](\A p \in Procs :
            pc[p] = "create_send" => loc[p].id \in 1..(nextId - 1))
    /\ [][(Called("create") /\ last'.result = None) =>
            (pc' = pc /\ users' = users)]_vars

\* a create call has sent its email for an account that was committed
\* before, while another request is still between its lookup and commit
C19_Witness ==
    /\ last.op = "create"
    /\ last.result \in DOMAIN users
    /\ users[last.result] \in last.pre
    /\ \E p \in Procs : pc[p] = "create_commit"

----------------------------------------------------------------------------
(* C14 *)

\* C14: POST /login for an account whose is_locked flag is true is answered
\* 400 'Account locked due to too many failed login attempts.' and never
\* 401, whatever the password and whether or not the email is verified.
C14_LockedIs400 ==
    [][(Called("POST /login") /\ Target # None /\ users[Target].is_locked)
         => /\ last'.result.status = 400
            /\ last'.result.status # 401
            /\ last'.result.detail =
                 "Account locked due to too many failed login attempts."]_vars

\* POST /login with the correct password for an account that is locked and
\* not verified was answered 400
C14_Witness ==
    /\ last.op = "POST /login"
    /\ \E u \in last.pre :
          /\ u.is_locked
          /\ ~u.email_verified
          /\ verify_password(last.inp, u.hashed_password)
    /\ last.result.status = 400

----------------------------------------------------------------------------
(* C18 *)

\* C18 as claimed: the handler of unexpected exceptions answers every
\* exception with the same body, whatever its message.
C18_AsClaimed ==
    last.op = "exception_handler" =>
        \A exc \in ExcMessages :
            exception_handler(exc).content = last.result.content

----------------------------------------------------------------------------
(* C17 *)

\* C17: delete on an existing account removes exactly that account and
\* returns true, and get_by_id for the id then returns None through every
\* later call until an account is created; delete on an id that does not
\* exist returns false and leaves every account as it was.
C17_Delete ==
    /\ [][Called("delete") =>
            LET i == last'.key IN
            IF i \in DOMAIN users
            THEN /\ last'.result = TRUE
                 /\ get_by_id(users', i) = None
                 /\ DOMAIN users' = DOMAIN users \ {i}
                 /\ \A j \in DOMAIN users' : users'[j] = users[j]
            ELSE /\ last'.result = FALSE
                 /\ users' = users]_vars
    /\ [][\A i \in Ids :
            (get_by_id(users, i) = None /\ ~Called("create"))
                => get_by_id(users', i) = None]_vars

\* an account was deleted while another one exists: the call returned
\* true, the id is no longer found and the other account is still stored
C17_Witness ==
    /\ last.op = "delete"
    /\ last.result = TRUE
    /\ last.pre # {}
    /\ get_by_id(users, last.key) = None
    /\ count(users) = 1

----------------------------------------------------------------------------
(* C20 *)

\* C20: the failed-attempt counter is read and written back without
\* atomicity: a login_user call that fails on the password stores the
\* counter it read plus one, whatever other calls have committed since it
\* read, and locks the account only when that value reaches
\* max_login_attempts; so concurrent failed attempts can lose updates (the
\* state C20_Witness describes is reachable).
C20_ReadThenWrite ==
    [][\A p \in Procs :
         ( /\ pc[p] = "login_commit"
           /\ pc'[p] = "idle"
           /\ ~verify_password(loc[p].password, loc[p].row.hashed_password) )
         => LET i == loc[p].id
                n == loc[p].row.failed_login_attempts + 1
            IN
            /\ users'[i].failed_login_attempts = n
            /\ users'[i].is_locked =
                  (users[i].is_locked \/ n >= max_login_attempts)]_vars

\* max_login_attempts failed logins on a verified, unlocked account have
\* completed, and the account is not locked: its counter is below the
\* maximum because concurrent attempts wrote the same value
C20_Witness ==
    \E i \in DOMAIN users :
        /\ users[i].email_verified
        /\ streak[i] >= max_login_attempts
        /\ users[i].failed_login_attempts < max_login_attempts
        /\ ~users[i].is_locked
        /\ \A p \in Procs : pc[p] = "idle"

----------------------------------------------------------------------------
(* C15 *)

\* C15: whatever role create_access_token is given, an enum member or a
\* plain string of any case, decode_token of the token it returns yields
\* the role in upper case (no lower-case letter left, the letters those of
\* the role's name; 'authenticated' gives exactly 'AUTHENTICATED'), the
\* sub it was given, and no claim besides those given and exp.
C15_RoleUpperCase ==
    last.op = "create_access_token" =>
        LET data == last.key
            claims == decode_token(last.result, now)
        IN
        (claims # InvalidToken) =>
            /\ DOMAIN claims = DOMAIN data \cup {"exp"}
            /\ claims.sub = data.sub
            /\ "role" \in DOMAIN data =>
                  LET given == IF "name" \in DOMAIN data.role
                               THEN data.role.name ELSE data.role.str
                  IN
                  /\ claims.role = upper(given)
                  /\ \A k \in DOMAIN claims.role :
                        ~\E j \in DOMAIN Lowers :
                            Lowers[j] = claims.role[k]
                  /\ given = <<"a", "u", "t", "h", "e", "n", "t", "i",
                               "c", "a", "t", "e", "d">>
                        => claims.role =
                             <<"A", "U", "T", "H", "E", "N", "T", "I",
                               "C", "A", "T", "E", "D">>

\* a token was issued for the plain string 'authenticated' and decodes
\* with the role 'AUTHENTICATED'
C15_Witness ==
    /\ last.op = "create_access_token"
    /\ "role" \in DOMAIN last.key
    /\ last.key.role =
         [str |-> <<"a", "u", "t", "h", "e", "n", "t", "i", "c", "a", "t",
                    "e", "d">>]
    /\ decode_token(last.result, now) # InvalidToken
    /\ decode_token(last.result, now).role =
         <<"A", "U", "T", "H", "E", "N", "T", "I", "C", "A", "T", "E", "D">>

----------------------------------------------------------------------------
(* C16 *)

\* C16: the exp of an issued token is the issue time plus expires_delta
\* when one is given and plus access_token_expire_minutes otherwise;
\* decode_token returns the claims of a token signed with the configured
\* key at every time before its exp, and fails at every time after its exp
\* and for every token whose signature is not that of the configured key.
C16_Expiry ==
    /\ last.op = "create_access_token" =>
          last.result.payload.exp =
              now + (IF last.inp = NoDelta
                     THEN access_token_expire_minutes
                     ELSE last.inp)
    /\ last.op = "decode_token" =>
          LET token == last.key
              signed == token.sig = <<jwt_secret_key, token.payload>>
          IN
          /\ (signed /\ now < token.payload.exp)
                => last.result = token.payload
          /\ now > token.payload.exp => last.result = InvalidToken
          /\ ~signed => last.result = InvalidToken

\* a token signed with the configured key was presented after its exp and
\* was refused
C16_Witness ==
    /\ last.op = "decode_token"
    /\ last.key.sig = <<jwt_secret_key, last.key.payload>>
    /\ now > last.key.payload.exp
    /\ last.result = InvalidToken

----------------------------------------------------------------------------
(* C21 *)

\* C21: under sequential execution every account has
\* 0 <= failed_login_attempts <= max_login_attempts in every reachable
\* state: a new account starts at 0, the counter grows only by a
\* login_user call with a wrong password on a verified, unlocked account,
\* by one, and an account whose counter has reached the maximum is locked.
C21_CounterBounds ==
    /\ [](\A i \in DOMAIN users :
            /\ users[i].failed_login_attempts >= 0
            /\ users[i].failed_login_attempts <= max_login_attempts
            /\ users[i].failed_login_attempts >= max_login_attempts
                  => users[i].is_locked)
    /\ [][\A i \in DOMAIN users' \ DOMAIN users :
            users'[i].failed_login_attempts = 0]_vars
    /\ [][\A i \in DOMAIN users \cap DOMAIN users' :
            users'[i].failed_login_attempts > users[i].failed_login_attempts
            => /\ Called("login_user")
               /\ Target = i
               /\ users[i].email_verified
               /\ ~users[i].is_locked
               /\ ~verify_password(last'.inp, users[i].hashed_password)
               /\ users'[i].failed_login_attempts =
                     users[i].failed_login_attempts + 1]_vars

\* the wrong password that took the counter of a verified, unlocked account
\* from one below the maximum to the maximum, and locked it
C21_Witness ==
    \E i \in DOMAIN users :
        /\ last.op = "login_user"
        /\ last.key = users[i].email
        /\ \E u \in last.pre :
              /\ ~u.is_locked
              /\ u.failed_login_attempts = max_login_attempts - 1
        /\ users[i].failed_login_attempts = max_login_attempts
        /\ users[i].is_locked

----------------------------------------------------------------------------
(* C22 *)

\* the columns of an account that update must leave alone
UpdateFrame(u) ==
    <<u.hashed_password, u.is_locked, u.failed_login_attempts,
      u.email_verified, u.verification_token, u.role, u.last_login_at>>

\* C22: update changes at most the email and nickname of the account with
\* the given id: its hashed_password, is_locked, failed_login_attempts,
\* email_verified, verification_token and role stay as they were, whatever
\* keys the payload carries and also when the email changes; no other
\* account changes and none appears or disappears; and for an id that does
\* not exist it returns None and changes nothing.
C22_UpdateFrame ==
    [][Called("update") =>
         LET i == last'.key IN
         /\ DOMAIN users' = DOMAIN users
         /\ \A j \in DOMAIN users \ {i} : users'[j] = users[j]
         /\ i \in DOMAIN users =>
               UpdateFrame(users'[i]) = UpdateFrame(users[i])
         /\ i \notin DOMAIN users =>
               (last'.result = None /\ users' = users)]_vars

\* an update has gone through on an account that is verified and locked,
\* has logged in before and has its counter at the maximum, while a second
\* account exists: all of these are as they were
C22_Witness ==
    \E i \in DOMAIN users :
        /\ last.op = "update"
        /\ last.key = i
        /\ last.result = i
        /\ count(users) = 2
        /\ users[i].email_verified
        /\ users[i].is_locked
        /\ users[i].failed_login_attempts = max_login_attempts
        /\ users[i].last_login_at # None
        /\ users[i].role = "AUTHENTICATED"

====
